---- MODULE Spec2Model ----
(***************************************************************************)
(* bounded_basic_string<CharT, UpperBound> (src/BoundedString.hpp): a      *)
(* std::basic_string decorated with an upper bound on its length.          *)
(*                                                                         *)
(* The model follows one instance (`s`, the contents of *this) through     *)
(* calls of its public operations.  Every call is one action: it draws the *)
(* arguments from small sets, runs the operation as the source writes it   *)
(* (the order of the bound check and of the delegation to the base string  *)
(* included) and records what the call was, what it was given and how it   *)
(* ended.  A second instance of the same type, the operand of copy, move,  *)
(* swap and insert, is drawn per call; `other` is what the call left in it.*)
(* Between two calls the caller takes the result (or catches the           *)
(* exception) and the record of the call is dropped.                       *)
(*                                                                         *)
(* Calls outside a precondition of std::basic_string (pop_back on an empty *)
(* string, a pointer range longer than its buffer, an iterator outside     *)
(* [begin(), end()]) are not drawn.                                        *)
(***************************************************************************)
EXTENDS Integers, Sequences, FiniteSets, TLC

\* ------------------------------------------------------------------ bounds
\* The template parameter UpperBound of the instance under study.
UpperBound == 3
\* Base::max_size(): the length at which the base string itself refuses to grow.
BaseMaxSize == 5
\* size_type has SizeMod values (2^w in the build); npos is the largest.
SizeMod == 16

NPos == SizeMod - 1
\* The longest source (view, range, list, buffer, operand) a call is given.
SrcMax == UpperBound + 1

Chars == {"a", "b"}
\* The terminator of a character buffer.
NUL == "0"

Min(a, b) == IF a < b THEN a ELSE b

Strs(n) == UNION {[1..k -> Chars] : k \in 0..n}
\* Views, ranges, initializer lists and raw buffers handed to a call.
Srcs == Strs(SrcMax)
\* The states of the operand instance: every length up to one past the bound
\* (a call that raises can leave an instance there).
Others == Strs(SrcMax)
\* Null-terminated buffers: the text, its terminator and what lies after it.
CBufs == {t \o <<NUL>> \o u : t \in Srcs, u \in {<<>>, <<"a">>}}
\* Values of a size_type count argument.
Counts == (0..SrcMax) \cup {NPos}

LengthError == "length_error"
OutOfRange == "out_of_range"
Terminate == "terminate"

\* --------------------------------------------------- size_type arithmetic
SizeAdd(a, b) == (a + b) % SizeMod

\* ------------------------------------------------------- the base string
\* A base call's result: the contents it leaves and how it ended.
Ok(v) == [s |-> v, out |-> "ok"]
Exc(v, e) == [s |-> v, out |-> e]

Fill(count, ch) == [i \in 1..count |-> ch]

\* Traits::length(s): the characters before the first terminator.
RECURSIVE CStrLen(_)
CStrLen(buf) ==
  IF buf = <<>> \/ Head(buf) = NUL THEN 0 ELSE 1 + CStrLen(Tail(buf))

CStr(buf) == SubSeq(buf, 1, CStrLen(buf))

\* The characters of t over [pos, pos + count), clamped to the end of t.
Slice(t, pos, count) == SubSeq(t, pos + 1, pos + Min(count, Len(t) - pos))

InsertAt(cur, idx, ins) ==
  SubSeq(cur, 1, idx) \o ins \o SubSeq(cur, idx + 1, Len(cur))

\* Base::assign / Base::operator= / Base(...) with `n` characters `new`.
BaseAssign(cur, n, new) ==
  IF n > BaseMaxSize THEN Exc(cur, LengthError) ELSE Ok(new)

\* Base::assign(str, pos, count), Base(other, pos), Base(t, pos, n).
BaseAssignSlice(cur, t, pos, count) ==
  IF pos > Len(t) THEN Exc(cur, OutOfRange)
  ELSE BaseAssign(cur, Min(count, Len(t) - pos), Slice(t, pos, count))

\* Base::insert(index, ...) of `n` characters `ins` (evaluated only when it fits).
BaseInsert(cur, idx, n, ins) ==
  IF idx > Len(cur) THEN Exc(cur, OutOfRange)
  ELSE IF Len(cur) + n > BaseMaxSize THEN Exc(cur, LengthError)
  ELSE Ok(InsertAt(cur, idx, ins))

\* Base::insert(index, str, index_str, count).
BaseInsertSlice(cur, idx, t, pos, count) ==
  IF idx > Len(cur) \/ pos > Len(t) THEN Exc(cur, OutOfRange)
  ELSE BaseInsert(cur, idx, Min(count, Len(t) - pos), Slice(t, pos, count))

\* Base::erase(index, count).
BaseErase(cur, idx, count) ==
  IF idx > Len(cur) THEN Exc(cur, OutOfRange)
  ELSE Ok(SubSeq(cur, 1, idx) \o
          SubSeq(cur, idx + Min(count, Len(cur) - idx) + 1, Len(cur)))

\* ------------------------------------------------- the shapes of a method
\* `throw std::length_error("Exceeded upper bound")`, after the events `before`.
ThrowLen(v, before) ==
  [s |-> v, out |-> LengthError, ev |-> Append(before, "check")]

\* The bound check passed and the base call `r` followed it.
Checked(r) ==
  [s |-> r.s, out |-> r.out,
   ev |-> IF r.out = "ok" THEN <<"check", "write">>
          ELSE <<"check", "base_raise">>]

\* The base call `r` came first and the bound check reads size() after it.
Delegated(r) ==
  IF r.out # "ok" THEN [s |-> r.s, out |-> r.out, ev |-> <<"base_raise">>]
  ELSE IF Len(r.s) > UpperBound THEN ThrowLen(r.s, <<"write">>)
  ELSE [s |-> r.s, out |-> "ok", ev |-> <<"write", "check">>]

\* The base call `r` alone, no bound check.
Forwarded(r) ==
  [s |-> r.s, out |-> r.out,
   ev |-> IF r.out = "ok" THEN <<"write">> ELSE <<"base_raise">>]

\* A function declared noexcept: an exception leaving it ends the program.
NoExcept(r) == IF r.out = "ok" THEN r ELSE [r EXCEPT !.out = Terminate]

\* ------------------------------------------------------------ constructors
\* A constructor's result: the contents of the new object, or an exception.

\* bounded_basic_string()
ctor_default == Forwarded(Ok(<<>>))

\* bounded_basic_string(count, ch): Base(count, ch), then `count > UpperBound`.
ctor_count_ch(count, ch) ==
  LET r == BaseAssign(<<>>, count, Fill(count, ch))
  IN  IF r.out # "ok" THEN Forwarded(r)
      ELSE IF count > UpperBound THEN ThrowLen(r.s, <<"write">>)
      ELSE [s |-> r.s, out |-> "ok", ev |-> <<"write", "check">>]

\* bounded_basic_string(other, pos): Base(other, pos, alloc).
ctor_substr_pos(oth, pos) == Delegated(BaseAssignSlice(<<>>, oth, pos, NPos))

\* bounded_basic_string(other, pos, count): Base(other, pos, alloc) as well;
\* `count` is not handed to the base.
ctor_substr_pos_count(oth, pos, count) ==
  Delegated(BaseAssignSlice(<<>>, oth, pos, NPos))

\* bounded_basic_string(s, count)
ctor_ptr_count(buf, count) ==
  Delegated(BaseAssign(<<>>, count, SubSeq(buf, 1, count)))

\* bounded_basic_string(s)
ctor_cstr(buf) == Delegated(BaseAssign(<<>>, CStrLen(buf), CStr(buf)))

\* bounded_basic_string(first, last)
ctor_range(t) == Delegated(BaseAssign(<<>>, Len(t), t))

\* bounded_basic_string(const bounded_basic_string &)
ctor_copy(oth) == Delegated(BaseAssign(<<>>, Len(oth), oth))

\* bounded_basic_string(bounded_basic_string &&) noexcept
ctor_move(oth) == NoExcept(Delegated(BaseAssign(<<>>, Len(oth), oth)))

\* Mutant of ctor_ilist: the bound check after Base(ilist) is left out.
ctor_ilist_unchecked(il) == Forwarded(BaseAssign(<<>>, Len(il), il))

\* bounded_basic_string(std::initializer_list<CharT>)
ctor_ilist(il) == Delegated(BaseAssign(<<>>, Len(il), il))

\* bounded_basic_string(const StringViewLike &)
ctor_view(t) == Delegated(BaseAssign(<<>>, Len(t), t))

\* bounded_basic_string(const StringViewLike &, pos, n)
ctor_view_slice(t, pos, n) == Delegated(BaseAssignSlice(<<>>, t, pos, n))

\* ------------------------------------------------- operator= and assign
\* operator=(const bounded_basic_string &): the base assignment, no check.
op_assign_copy(cur, str) == Forwarded(BaseAssign(cur, Len(str), str))

\* operator=(const bounded_basic_string &&) noexcept: std::move of a const
\* rvalue selects the base's copy assignment; no check.
op_assign_move(cur, str) == NoExcept(Forwarded(BaseAssign(cur, Len(str), str)))

\* operator=(const CharT *)
op_assign_cstr(cur, buf) ==
  IF CStrLen(buf) > UpperBound THEN ThrowLen(cur, <<>>)
  ELSE Checked(BaseAssign(cur, CStrLen(buf), CStr(buf)))

\* operator=(CharT)
op_assign_ch(cur, ch) == Forwarded(BaseAssign(cur, 1, <<ch>>))

\* operator=(std::initializer_list<CharT>)
op_assign_ilist(cur, il) ==
  IF Len(il) > UpperBound THEN ThrowLen(cur, <<>>)
  ELSE Checked(BaseAssign(cur, Len(il), il))

\* operator=(const StringViewLike &): Base::operator=(t), then size() > UpperBound.
op_assign_view(cur, t) == Delegated(BaseAssign(cur, Len(t), t))

\* Mutant of assign_count_ch: Base::assign first, size() compared afterwards.
assign_count_ch_late(cur, count, ch) ==
  Delegated(BaseAssign(cur, count, Fill(count, ch)))

\* assign(count, ch)
assign_count_ch(cur, count, ch) ==
  IF count > UpperBound THEN ThrowLen(cur, <<>>)
  ELSE Checked(BaseAssign(cur, count, Fill(count, ch)))

\* assign(const bounded_basic_string &)
assign_str(cur, str) ==
  IF Len(str) > UpperBound THEN ThrowLen(cur, <<>>)
  ELSE Checked(BaseAssign(cur, Len(str), str))

\* Mutant of assign(str, pos, count): the raw count is compared first.
assign_str_slice_raw(cur, str, pos, count) ==
  IF count > UpperBound THEN ThrowLen(cur, <<>>)
  ELSE Checked(BaseAssignSlice(cur, str, pos, count))

\* assign(str, pos, count): Base::assign(str, pos, count), then size() > UpperBound.
assign_str_slice(cur, str, pos, count) ==
  Delegated(BaseAssignSlice(cur, str, pos, count))

\* assign(bounded_basic_string &&) noexcept
assign_move(cur, str) ==
  NoExcept(IF Len(str) > UpperBound THEN ThrowLen(cur, <<>>)
           ELSE Checked(BaseAssign(cur, Len(str), str)))

\* assign(const CharT *, count)
assign_ptr_count(cur, buf, count) ==
  IF count > UpperBound THEN ThrowLen(cur, <<>>)
  ELSE Checked(BaseAssign(cur, count, SubSeq(buf, 1, count)))

\* assign(const CharT *)
assign_cstr(cur, buf) ==
  IF CStrLen(buf) > UpperBound THEN ThrowLen(cur, <<>>)
  ELSE Checked(BaseAssign(cur, CStrLen(buf), CStr(buf)))

\* assign(first, last): Base::assign(first, last), then size() > UpperBound.
assign_range(cur, t) == Delegated(BaseAssign(cur, Len(t), t))

\* assign(std::initializer_list<CharT>)
assign_ilist(cur, il) ==
  IF Len(il) > UpperBound THEN ThrowLen(cur, <<>>)
  ELSE Checked(BaseAssign(cur, Len(il), il))

\* assign(const StringViewLike &): Base::assign(t), then size() > UpperBound.
assign_view(cur, t) == Delegated(BaseAssign(cur, Len(t), t))

\* assign(t, pos, count): Base::assign(t, pos, count), then length() > UpperBound.
assign_view_slice(cur, t, pos, count) ==
  Delegated(BaseAssignSlice(cur, t, pos, count))

\* --------------------------------------------- capacity and pass-through
\* Mutant of reserve: `>=` in place of `>`.
reserve_ge(cur, new_cap) ==
  IF new_cap >= UpperBound THEN ThrowLen(cur, <<>>)
  ELSE [s |-> cur, out |-> "ok", ev |-> <<"check">>]

\* reserve(new_cap): the contents are not touched.
reserve(cur, new_cap) ==
  IF new_cap > UpperBound THEN ThrowLen(cur, <<>>)
  ELSE [s |-> cur, out |-> "ok", ev |-> <<"check">>]

\* using Base::shrink_to_fit
shrink_to_fit(cur) == [s |-> cur, out |-> "ok", ev |-> <<>>]

\* using Base::clear
clear(cur) == Forwarded(Ok(<<>>))

\* using Base::erase: erase(index, count)
erase_idx(cur, idx, count) == Forwarded(BaseErase(cur, idx, count))

\* using Base::erase: erase(const_iterator), position in [begin(), end())
erase_at(cur, pos) == Forwarded(BaseErase(cur, pos, 1))

\* using Base::erase: erase(first, last), begin() <= first <= last <= end()
erase_range(cur, first, last) == Forwarded(BaseErase(cur, first, last - first))

\* using Base::pop_back, on a non-empty string
pop_back(cur) == Forwarded(BaseErase(cur, Len(cur) - 1, 1))

\* swap(other) noexcept: `other.length() >= UpperBound` throws.  The result is
\* the contents of *this; SwapOther is what the call leaves in `other`.
swap(cur, oth) ==
  NoExcept(IF Len(oth) >= UpperBound THEN ThrowLen(cur, <<>>)
           ELSE Checked(Ok(oth)))

SwapOther(cur, oth) == IF swap(cur, oth).out = "ok" THEN cur ELSE oth

\* ------------------------------------------------ push_back and insert
\* Mutant of push_back: `>` in place of `>=`.
push_back_gt(cur, ch) ==
  IF Len(cur) > UpperBound THEN ThrowLen(cur, <<>>)
  ELSE Checked(BaseInsert(cur, Len(cur), 1, <<ch>>))

\* push_back(ch)
push_back(cur, ch) ==
  IF Len(cur) >= UpperBound THEN ThrowLen(cur, <<>>)
  ELSE Checked(BaseInsert(cur, Len(cur), 1, <<ch>>))

\* Mutant of insert(index, count, ch): the guard is left out.
insert_idx_count_ch_unguarded(cur, idx, count, ch) ==
  Forwarded(BaseInsert(cur, idx, count, Fill(count, ch)))

\* insert(index, count, ch)
insert_idx_count_ch(cur, idx, count, ch) ==
  IF SizeAdd(Len(cur), count) > UpperBound THEN ThrowLen(cur, <<>>)
  ELSE Checked(BaseInsert(cur, idx, count, Fill(count, ch)))

\* insert(index, const CharT *)
insert_idx_cstr(cur, idx, buf) ==
  IF SizeAdd(Len(cur), CStrLen(buf)) > UpperBound THEN ThrowLen(cur, <<>>)
  ELSE Checked(BaseInsert(cur, idx, CStrLen(buf), CStr(buf)))

\* insert(index, const CharT *, count)
insert_idx_ptr_count(cur, idx, buf, count) ==
  IF SizeAdd(Len(cur), count) > UpperBound THEN ThrowLen(cur, <<>>)
  ELSE Checked(BaseInsert(cur, idx, count, SubSeq(buf, 1, count)))

\* insert(index, const bounded_basic_string &)
insert_idx_str(cur, idx, str) ==
  IF SizeAdd(Len(cur), Len(str)) > UpperBound THEN ThrowLen(cur, <<>>)
  ELSE Checked(BaseInsert(cur, idx, Len(str), str))

\* insert(index, str, index_str, count): str.substr(index_str, count) raises
\* out_of_range itself, before the comparison.
insert_idx_str_slice(cur, idx, str, index_str, count) ==
  IF index_str > Len(str) THEN [s |-> cur, out |-> OutOfRange, ev |-> <<>>]
  ELSE IF SizeAdd(Len(cur), Len(Slice(str, index_str, count))) > UpperBound
       THEN ThrowLen(cur, <<>>)
  ELSE Checked(BaseInsertSlice(cur, idx, str, index_str, count))

\* Mutant of insert(const_iterator, ch): `>` in place of `>=`.
insert_it_ch_gt(cur, pos, ch) ==
  IF Len(cur) > UpperBound THEN ThrowLen(cur, <<>>)
  ELSE Checked(BaseInsert(cur, pos, 1, <<ch>>))

\* insert(const_iterator, ch)
insert_it_ch(cur, pos, ch) ==
  IF Len(cur) >= UpperBound THEN ThrowLen(cur, <<>>)
  ELSE Checked(BaseInsert(cur, pos, 1, <<ch>>))

\* insert(const_iterator, count, ch)
insert_it_count_ch(cur, pos, count, ch) ==
  IF SizeAdd(Len(cur), count) > UpperBound THEN ThrowLen(cur, <<>>)
  ELSE Checked(BaseInsert(cur, pos, count, Fill(count, ch)))

\* insert(const_iterator, first, last)
insert_it_range(cur, pos, t) ==
  IF SizeAdd(Len(cur), Len(t)) > UpperBound THEN ThrowLen(cur, <<>>)
  ELSE Checked(BaseInsert(cur, pos, Len(t), t))

\* insert(const_iterator, std::initializer_list<CharT>)
insert_it_ilist(cur, pos, il) ==
  IF SizeAdd(Len(cur), Len(il)) > UpperBound THEN ThrowLen(cur, <<>>)
  ELSE Checked(BaseInsert(cur, pos, Len(il), il))

\* insert(pos, const T &): Base::insert(pos, t), then length() > UpperBound.
insert_idx_view(cur, idx, t) == Delegated(BaseInsert(cur, idx, Len(t), t))

\* insert(index, const T &, index_str, count): Base::insert first, then
\* length() > UpperBound.
insert_idx_view_slice(cur, idx, t, index_str, count) ==
  Delegated(BaseInsertSlice(cur, idx, t, index_str, count))

\* ------------------------------------------------------------------ state
VARIABLES
  s,        \* the contents of *this (<<>> while no object exists)
  built,    \* TRUE while the object exists
  other,    \* the operand instance as the last call left it (<<>> if none)
  op,       \* the call that has just ended, "idle" once the caller went on
  outcome,  \* "ok", the exception the last call raised, or "terminate"
  ev,       \* the last call's bound checks, writes and base exceptions, in order
  pre,      \* the contents of *this when the last call began
  arg,      \* the arguments of the last call
  allok     \* TRUE while no call since the construction has raised

vars == <<s, built, other, op, outcome, ev, pre, arg, allok>>

\* The arguments of a call: the source or operand, the position in *this, the
\* position in the source, the count and the character; unused ones at rest.
Arg(a_src, a_idx, a_pos, a_cnt, a_ch) ==
  [src |-> a_src, idx |-> a_idx, pos |-> a_pos, cnt |-> a_cnt, ch |-> a_ch]

Fits(str) == Len(str) <= UpperBound

Idle == "idle"
NoArg == Arg(<<>>, 0, 0, 0, "a")

Init ==
  /\ s = ctor_default.s
  /\ built = TRUE
  /\ other = <<>>
  /\ op = "ctor_default"
  /\ outcome = ctor_default.out
  /\ ev = ctor_default.ev
  /\ pre = <<>>
  /\ arg = NoArg
  /\ allok = TRUE

\* Every call starts from the caller at rest (op = Idle).
\* A constructor call with result r: a new object replaces the one followed
\* so far; an exception leaves no object.  `sound` says that the operand, if
\* any, came into the call within the bound.
Construct(name, r, a, oth, sound) ==
  /\ op' = name
  /\ outcome' = r.out
  /\ ev' = r.ev
  /\ built' = (r.out = "ok")
  /\ s' = IF r.out = "ok" THEN r.s ELSE <<>>
  /\ pre' = <<>>
  /\ arg' = a
  /\ other' = oth
  /\ allok' = (r.out = "ok" /\ sound)

\* A member call with result r on the existing object.
Call(name, r, a, oth, sound) ==
  /\ built
  /\ op' = name
  /\ outcome' = r.out
  /\ ev' = r.ev
  /\ built' = TRUE
  /\ s' = r.s
  /\ pre' = s
  /\ arg' = a
  /\ other' = oth
  /\ allok' = (allok /\ r.out = "ok" /\ sound)

\* The caller takes the result of the call, or catches its exception, and goes
\* on; after std::terminate nothing goes on.
CallerContinues ==
  /\ op # Idle
  /\ outcome # Terminate
  /\ op' = Idle
  /\ outcome' = "ok"
  /\ ev' = <<>>
  /\ pre' = <<>>
  /\ arg' = NoArg
  /\ other' = <<>>
  /\ UNCHANGED <<s, built, allok>>

\* What a move leaves in its source: valid but unspecified.
MovedFrom(str) == {<<>>, str}

\* ------------------------------------------------------- constructor calls
CtorDefault ==
  /\ op = Idle
  /\ Construct("ctor_default", ctor_default, Arg(<<>>, 0, 0, 0, "a"), <<>>, TRUE)

CtorCountCh ==
  /\ op = Idle
  /\ \E count \in Counts, ch \in Chars :
       Construct("ctor_count_ch", ctor_count_ch(count, ch),
                 Arg(<<>>, 0, 0, count, ch), <<>>, TRUE)

CtorSubstrPos ==
  /\ op = Idle
  /\ \E oth \in Others : \E pos \in 0..(Len(oth) + 1) :
       Construct("ctor_substr_pos", ctor_substr_pos(oth, pos),
                 Arg(oth, 0, pos, NPos, "a"), oth, Fits(oth))

CtorSubstrPosCount ==
  /\ op = Idle
  /\ \E oth \in Others, count \in Counts : \E pos \in 0..(Len(oth) + 1) :
       Construct("ctor_substr_pos_count", ctor_substr_pos_count(oth, pos, count),
                 Arg(oth, 0, pos, count, "a"), oth, Fits(oth))

CtorPtrCount ==
  /\ op = Idle
  /\ \E buf \in Srcs : \E count \in 0..Len(buf) :
       Construct("ctor_ptr_count", ctor_ptr_count(buf, count),
                 Arg(buf, 0, 0, count, "a"), <<>>, TRUE)

CtorCStr ==
  /\ op = Idle
  /\ \E buf \in CBufs :
       Construct("ctor_cstr", ctor_cstr(buf), Arg(buf, 0, 0, 0, "a"), <<>>, TRUE)

CtorRange ==
  /\ op = Idle
  /\ \E t \in Srcs :
       Construct("ctor_range", ctor_range(t), Arg(t, 0, 0, 0, "a"), <<>>, TRUE)

CtorCopy ==
  /\ op = Idle
  /\ \E oth \in Others :
       Construct("ctor_copy", ctor_copy(oth), Arg(oth, 0, 0, 0, "a"), oth,
                 Fits(oth))

CtorMove ==
  /\ op = Idle
  /\ \E oth \in Others :
       \E left \in (IF ctor_move(oth).out = "ok" THEN MovedFrom(oth) ELSE {oth}) :
         Construct("ctor_move", ctor_move(oth), Arg(oth, 0, 0, 0, "a"), left,
                   Fits(oth))

CtorIList ==
  /\ op = Idle
  /\ \E il \in Srcs :
       Construct("ctor_ilist", ctor_ilist(il), Arg(il, 0, 0, 0, "a"), <<>>, TRUE)

CtorView ==
  /\ op = Idle
  /\ \E t \in Srcs :
       Construct("ctor_view", ctor_view(t), Arg(t, 0, 0, 0, "a"), <<>>, TRUE)

CtorViewSlice ==
  /\ op = Idle
  /\ \E t \in Srcs, n \in Counts : \E pos \in 0..(Len(t) + 1) :
       Construct("ctor_view_slice", ctor_view_slice(t, pos, n),
                 Arg(t, 0, pos, n, "a"), <<>>, TRUE)

\* ------------------------------------------------ operator= and assign calls
OpAssignCopy ==
  /\ op = Idle
  /\ \E str \in Others :
       Call("op_assign_copy", op_assign_copy(s, str), Arg(str, 0, 0, 0, "a"),
            str, Fits(str))

OpAssignMove ==
  /\ op = Idle
  /\ \E str \in Others :
       Call("op_assign_move", op_assign_move(s, str), Arg(str, 0, 0, 0, "a"),
            str, Fits(str))

OpAssignCStr ==
  /\ op = Idle
  /\ \E buf \in CBufs :
       Call("op_assign_cstr", op_assign_cstr(s, buf), Arg(buf, 0, 0, 0, "a"),
            <<>>, TRUE)

OpAssignCh ==
  /\ op = Idle
  /\ \E ch \in Chars :
       Call("op_assign_ch", op_assign_ch(s, ch), Arg(<<>>, 0, 0, 0, ch), <<>>, TRUE)

OpAssignIList ==
  /\ op = Idle
  /\ \E il \in Srcs :
       Call("op_assign_ilist", op_assign_ilist(s, il), Arg(il, 0, 0, 0, "a"),
            <<>>, TRUE)

OpAssignView ==
  /\ op = Idle
  /\ \E t \in Srcs :
       Call("op_assign_view", op_assign_view(s, t), Arg(t, 0, 0, 0, "a"),
            <<>>, TRUE)

AssignCountCh ==
  /\ op = Idle
  /\ \E count \in Counts, ch \in Chars :
       Call("assign_count_ch", assign_count_ch(s, count, ch),
            Arg(<<>>, 0, 0, count, ch), <<>>, TRUE)

AssignStr ==
  /\ op = Idle
  /\ \E str \in Others :
       Call("assign_str", assign_str(s, str), Arg(str, 0, 0, 0, "a"), str,
            Fits(str))

AssignStrSlice ==
  /\ op = Idle
  /\ \E str \in Others, count \in Counts : \E pos \in 0..(Len(str) + 1) :
       Call("assign_str_slice", assign_str_slice(s, str, pos, count),
            Arg(str, 0, pos, count, "a"), str, Fits(str))

AssignMove ==
  /\ op = Idle
  /\ \E str \in Others :
       \E left \in (IF assign_move(s, str).out = "ok" THEN MovedFrom(str)
                    ELSE {str}) :
         Call("assign_move", assign_move(s, str), Arg(str, 0, 0, 0, "a"), left,
              Fits(str))

AssignPtrCount ==
  /\ op = Idle
  /\ \E buf \in Srcs : \E count \in 0..Len(buf) :
       Call("assign_ptr_count", assign_ptr_count(s, buf, count),
            Arg(buf, 0, 0, count, "a"), <<>>, TRUE)

AssignCStr ==
  /\ op = Idle
  /\ \E buf \in CBufs :
       Call("assign_cstr", assign_cstr(s, buf), Arg(buf, 0, 0, 0, "a"), <<>>, TRUE)

AssignRange ==
  /\ op = Idle
  /\ \E t \in Srcs :
       Call("assign_range", assign_range(s, t), Arg(t, 0, 0, 0, "a"), <<>>, TRUE)

AssignIList ==
  /\ op = Idle
  /\ \E il \in Srcs :
       Call("assign_ilist", assign_ilist(s, il), Arg(il, 0, 0, 0, "a"), <<>>, TRUE)

AssignView ==
  /\ op = Idle
  /\ \E t \in Srcs :
       Call("assign_view", assign_view(s, t), Arg(t, 0, 0, 0, "a"), <<>>, TRUE)

AssignViewSlice ==
  /\ op = Idle
  /\ \E t \in Srcs, count \in Counts : \E pos \in 0..(Len(t) + 1) :
       Call("assign_view_slice", assign_view_slice(s, t, pos, count),
            Arg(t, 0, pos, count, "a"), <<>>, TRUE)

\* ------------------------------------------- capacity and pass-through calls
Reserve ==
  /\ op = Idle
  /\ \E new_cap \in Counts :
       Call("reserve", reserve(s, new_cap), Arg(<<>>, 0, 0, new_cap, "a"),
            <<>>, TRUE)

ShrinkToFit ==
  /\ op = Idle
  /\ Call("shrink_to_fit", shrink_to_fit(s), Arg(<<>>, 0, 0, 0, "a"), <<>>, TRUE)

Clear ==
  /\ op = Idle
  /\ Call("clear", clear(s), Arg(<<>>, 0, 0, 0, "a"), <<>>, TRUE)

EraseIdx ==
  /\ op = Idle
  /\ \E idx \in 0..(Len(s) + 1), count \in Counts :
       Call("erase_idx", erase_idx(s, idx, count), Arg(<<>>, idx, 0, count, "a"),
            <<>>, TRUE)

EraseAt ==
  /\ op = Idle
  /\ \E pos \in 0..(Len(s) - 1) :
       Call("erase_at", erase_at(s, pos), Arg(<<>>, pos, 0, 1, "a"), <<>>, TRUE)

EraseRange ==
  /\ op = Idle
  /\ \E first \in 0..Len(s) : \E last \in first..Len(s) :
       Call("erase_range", erase_range(s, first, last),
            Arg(<<>>, first, 0, last - first, "a"), <<>>, TRUE)

PopBack ==
  /\ op = Idle
  /\ Len(s) > 0
  /\ Call("pop_back", pop_back(s), Arg(<<>>, 0, 0, 0, "a"), <<>>, TRUE)

Swap ==
  /\ op = Idle
  /\ \E oth \in Others :
       Call("swap", swap(s, oth), Arg(oth, 0, 0, 0, "a"), SwapOther(s, oth),
            Fits(oth))

\* ------------------------------------------------ push_back and insert calls
PushBack ==
  /\ op = Idle
  /\ \E ch \in Chars :
       Call("push_back", push_back(s, ch), Arg(<<>>, Len(s), 0, 1, ch), <<>>, TRUE)

InsertIdxCountCh ==
  /\ op = Idle
  /\ \E idx \in 0..(Len(s) + 1), count \in Counts, ch \in Chars :
       Call("insert_idx_count_ch", insert_idx_count_ch(s, idx, count, ch),
            Arg(<<>>, idx, 0, count, ch), <<>>, TRUE)

InsertIdxCStr ==
  /\ op = Idle
  /\ \E idx \in 0..(Len(s) + 1), buf \in CBufs :
       Call("insert_idx_cstr", insert_idx_cstr(s, idx, buf),
            Arg(buf, idx, 0, 0, "a"), <<>>, TRUE)

InsertIdxPtrCount ==
  /\ op = Idle
  /\ \E idx \in 0..(Len(s) + 1), buf \in Srcs : \E count \in 0..Len(buf) :
       Call("insert_idx_ptr_count", insert_idx_ptr_count(s, idx, buf, count),
            Arg(buf, idx, 0, count, "a"), <<>>, TRUE)

InsertIdxStr ==
  /\ op = Idle
  /\ \E idx \in 0..(Len(s) + 1), str \in Others :
       Call("insert_idx_str", insert_idx_str(s, idx, str),
            Arg(str, idx, 0, 0, "a"), str, Fits(str))

InsertIdxStrSlice ==
  /\ op = Idle
  /\ \E idx \in 0..(Len(s) + 1), str \in Others, count \in Counts :
       \E index_str \in 0..(Len(str) + 1) :
         Call("insert_idx_str_slice",
              insert_idx_str_slice(s, idx, str, index_str, count),
              Arg(str, idx, index_str, count, "a"), str, Fits(str))

InsertItCh ==
  /\ op = Idle
  /\ \E pos \in 0..Len(s), ch \in Chars :
       Call("insert_it_ch", insert_it_ch(s, pos, ch), Arg(<<>>, pos, 0, 1, ch),
            <<>>, TRUE)

InsertItCountCh ==
  /\ op = Idle
  /\ \E pos \in 0..Len(s), count \in Counts, ch \in Chars :
       Call("insert_it_count_ch", insert_it_count_ch(s, pos, count, ch),
            Arg(<<>>, pos, 0, count, ch), <<>>, TRUE)

InsertItRange ==
  /\ op = Idle
  /\ \E pos \in 0..Len(s), t \in Srcs :
       Call("insert_it_range", insert_it_range(s, pos, t),
            Arg(t, pos, 0, 0, "a"), <<>>, TRUE)

InsertItIList ==
  /\ op = Idle
  /\ \E pos \in 0..Len(s), il \in Srcs :
       Call("insert_it_ilist", insert_it_ilist(s, pos, il),
            Arg(il, pos, 0, 0, "a"), <<>>, TRUE)

InsertIdxView ==
  /\ op = Idle
  /\ \E idx \in 0..(Len(s) + 1), t \in Srcs :
       Call("insert_idx_view", insert_idx_view(s, idx, t),
            Arg(t, idx, 0, 0, "a"), <<>>, TRUE)

InsertIdxViewSlice ==
  /\ op = Idle
  /\ \E idx \in 0..(Len(s) + 1), t \in Srcs, count \in Counts :
       \E index_str \in 0..(Len(t) + 1) :
         Call("insert_idx_view_slice",
              insert_idx_view_slice(s, idx, t, index_str, count),
              Arg(t, idx, index_str, count, "a"), <<>>, TRUE)

\* ---------------------------------------------------------- specification
Next ==
  \/ CallerContinues
  \/ CtorDefault \/ CtorCountCh \/ CtorSubstrPos \/ CtorSubstrPosCount
  \/ CtorPtrCount \/ CtorCStr \/ CtorRange \/ CtorCopy \/ CtorMove
  \/ CtorIList \/ CtorView \/ CtorViewSlice
  \/ OpAssignCopy \/ OpAssignMove \/ OpAssignCStr \/ OpAssignCh
  \/ OpAssignIList \/ OpAssignView
  \/ AssignCountCh \/ AssignStr \/ AssignStrSlice \/ AssignMove
  \/ AssignPtrCount \/ AssignCStr \/ AssignRange \/ AssignIList
  \/ AssignView \/ AssignViewSlice
  \/ Reserve \/ ShrinkToFit \/ Clear \/ EraseIdx \/ EraseAt \/ EraseRange
  \/ PopBack \/ Swap
  \/ PushBack \/ InsertIdxCountCh \/ InsertIdxCStr \/ InsertIdxPtrCount
  \/ InsertIdxStr \/ InsertIdxStrSlice \/ InsertItCh \/ InsertItCountCh
  \/ InsertItRange \/ InsertItIList \/ InsertIdxView \/ InsertIdxViewSlice

Spec == Init /\ [][Next]_vars

\* ------------------------------------------------------------------ claims
\* What the claims say of a call is stated on the record the call leaves
\* (op, arg, pre, outcome) with definitions of their own.

Raised == outcome \in {LengthError, OutOfRange}

\* `count` copies of ch.
Repeat(count, ch) == [i \in 1..count |-> ch]

\* The text of a null-terminated buffer: what lies before its first terminator.
TextOf(buf) ==
  LET first == CHOOSE i \in 1..Len(buf) :
                 buf[i] = NUL /\ \A j \in 1..(i - 1) : buf[j] # NUL
  IN  [i \in 1..(first - 1) |-> buf[i]]

\* The realized slice of src over [pos, pos + count).
Realized(src, pos, count) ==
  LET n == IF count < Len(src) - pos THEN count ELSE Len(src) - pos
  IN  [i \in 1..n |-> src[pos + i]]

\* `ins` put into `old` before position idx.
Spliced(old, idx, ins) ==
  [i \in 1..(Len(old) + Len(ins)) |->
     IF i <= idx THEN old[i]
     ELSE IF i <= idx + Len(ins) THEN ins[i - idx]
     ELSE old[i - Len(ins)]]

AssignOps ==
  {"op_assign_copy", "op_assign_move", "op_assign_cstr", "op_assign_ilist",
   "op_assign_view", "assign_count_ch", "assign_str", "assign_str_slice",
   "assign_move", "assign_ptr_count", "assign_cstr", "assign_range",
   "assign_ilist", "assign_view", "assign_view_slice"}

InsertOps ==
  {"insert_idx_count_ch", "insert_idx_cstr", "insert_idx_ptr_count",
   "insert_idx_str", "insert_idx_str_slice", "insert_it_ch",
   "insert_it_count_ch", "insert_it_range", "insert_it_ilist",
   "insert_idx_view", "insert_idx_view_slice"}

MutatingOps ==
  AssignOps \cup InsertOps \cup {"op_assign_ch", "push_back", "swap", "reserve"}

\* The calls that take a second instance of the type as an operand.
OperandOps ==
  {"ctor_substr_pos", "ctor_substr_pos_count", "ctor_copy", "ctor_move",
   "op_assign_copy", "op_assign_move", "assign_str", "assign_str_slice",
   "assign_move", "swap", "insert_idx_str", "insert_idx_str_slice"}

\* C1: every call that begins with the instance (and its operand instance)
\* within the bound leaves an instance of at most UpperBound characters,
\* whether the call returned or raised.
C1_BoundAfterEveryCall ==
  (/\ built /\ op # Idle /\ Fits(pre)
   /\ op \in OperandOps => Fits(arg.src)) => Len(s) <= UpperBound

\* C2: a mutating call (operator=, assign, insert, push_back, swap, reserve)
\* that raises length_error or out_of_range leaves the contents as they were
\* when the call began.
C2_StrongFailureSafety == (op \in MutatingOps /\ Raised) => s = pre

CheckBeforeWrite(e) ==
  \A i \in 1..Len(e) : e[i] = "check" => \A j \in 1..(i - 1) : e[j] # "write"

\* C4: in every operator= and assign form the comparison against UpperBound
\* comes before the first write to the base string, never after it.
C4_CheckThenCommit == op \in AssignOps => CheckBeforeWrite(ev)

\* The source a construction form was given, as the claim reads it.
C5Forms ==
  {"ctor_count_ch", "ctor_ptr_count", "ctor_cstr", "ctor_range", "ctor_ilist",
   "ctor_view", "ctor_copy"}

C5_SourceLen ==
  CASE op = "ctor_count_ch" -> arg.cnt
    [] op = "ctor_ptr_count" -> arg.cnt
    [] op = "ctor_cstr" -> Len(TextOf(arg.src))
    [] OTHER -> Len(arg.src)

C5_Source ==
  CASE op = "ctor_count_ch" -> Repeat(arg.cnt, arg.ch)
    [] op = "ctor_ptr_count" -> [i \in 1..arg.cnt |-> arg.src[i]]
    [] op = "ctor_cstr" -> TextOf(arg.src)
    [] OTHER -> arg.src

\* C5: construction from a source of length L succeeds iff L <= UpperBound;
\* on success the instance equals the source, and with L > UpperBound
\* length_error is raised and no instance exists.
C5_ConstructionEquivalence ==
  op \in C5Forms =>
    /\ built <=> C5_SourceLen <= UpperBound
    /\ built => (outcome = "ok" /\ s = C5_Source /\ Len(s) = C5_SourceLen)
    /\ ~built => (outcome = LengthError /\ s = <<>>)

\* A null-terminated buffer with text of exactly UpperBound characters and
\* more behind its terminator was accepted.
C5_Witness ==
  /\ op = "ctor_cstr" /\ built
  /\ Len(s) = UpperBound /\ Len(arg.src) > UpperBound + 1

\* C6: bounded_basic_string(other, pos, count) with pos <= other.length()
\* yields exactly the min(count, other.length() - pos) characters of other
\* from pos on; with pos > other.length() it raises out_of_range.
C6_SubstringConstruction ==
  (op = "ctor_substr_pos_count" /\ Fits(arg.src)) =>
    IF arg.pos <= Len(arg.src)
    THEN built /\ s = Realized(arg.src, arg.pos, arg.cnt)
    ELSE ~built /\ outcome = OutOfRange

\* C7: assign(count, ch) with count = UpperBound succeeds and leaves exactly
\* UpperBound copies of ch; with count = UpperBound + 1 it raises length_error
\* and the instance still reads its prior contents.
C7_AssignCountBoundary ==
  op = "assign_count_ch" =>
    /\ arg.cnt = UpperBound =>
         (outcome = "ok" /\ s = Repeat(UpperBound, arg.ch))
    /\ arg.cnt = UpperBound + 1 => (outcome = LengthError /\ s = pre)

\* assign(UpperBound + 1, ch) was refused on an instance reading "ab".
C7_Witness ==
  /\ op = "assign_count_ch" /\ arg.cnt = UpperBound + 1
  /\ pre = <<"a", "b">> /\ s = <<"a", "b">> /\ outcome = LengthError

\* The characters a push_back or insert call was asked to put in.
C8_Inserted ==
  CASE op \in {"push_back", "insert_it_ch"} -> <<arg.ch>>
    [] op \in {"insert_idx_count_ch", "insert_it_count_ch"} ->
         Repeat(arg.cnt, arg.ch)
    [] op = "insert_idx_cstr" -> TextOf(arg.src)
    [] op = "insert_idx_ptr_count" -> [i \in 1..arg.cnt |-> arg.src[i]]
    [] op \in {"insert_idx_str_slice", "insert_idx_view_slice"} ->
         Realized(arg.src, arg.pos, arg.cnt)
    [] OTHER -> arg.src

\* The position is valid: within *this, and for a slice within the source.
C8_ValidPosition ==
  /\ arg.idx <= Len(pre)
  /\ op \in {"insert_idx_str_slice", "insert_idx_view_slice"} =>
       arg.pos <= Len(arg.src)

\* C8: push_back and every insert overload, at a valid position, succeed iff
\* length() + inserted length <= UpperBound; on success the inserted
\* characters stand at the position, the others keep their order and the
\* length is the sum.
C8_InsertWithinBound ==
  (op \in InsertOps \cup {"push_back"} /\ C8_ValidPosition) =>
    /\ outcome = "ok" <=> Len(pre) + Len(C8_Inserted) <= UpperBound
    /\ outcome = "ok" =>
         /\ s = Spliced(pre, arg.idx, C8_Inserted)
         /\ Len(s) = Len(pre) + Len(C8_Inserted)

\* One character was inserted inside an instance one short of the bound.
C8_Witness ==
  /\ op = "insert_it_ch" /\ outcome = "ok"
  /\ Len(pre) = UpperBound - 1 /\ Len(s) = UpperBound
  /\ arg.idx = 1 /\ s[2] = arg.ch /\ s[1] # arg.ch

\* C9: insert(index, other, sub_index, sub_count) at valid positions succeeds
\* iff length() + min(sub_count, other.length() - sub_index) <= UpperBound,
\* and a rejected call leaves the instance unchanged.
C9_InsertRealizedSlice ==
  (/\ op \in {"insert_idx_str_slice", "insert_idx_view_slice"}
   /\ arg.idx <= Len(pre) /\ arg.pos <= Len(arg.src)) =>
    /\ outcome = "ok" <=>
         Len(pre) + Len(Realized(arg.src, arg.pos, arg.cnt)) <= UpperBound
    /\ outcome # "ok" => s = pre

\* C10: swap between two instances within the same bound always succeeds and
\* leaves in each the former contents of the other.
C10_SwapAlwaysSucceeds ==
  (op = "swap" /\ Fits(pre) /\ Fits(arg.src)) =>
    (outcome = "ok" /\ s = arg.src /\ other = pre)

\* C11: reserve(new_cap) raises length_error iff new_cap > UpperBound, and
\* whether it returns or raises, length() and the contents are unchanged.
C11_ReserveBoundary ==
  op = "reserve" =>
    /\ outcome = LengthError <=> arg.cnt > UpperBound
    /\ outcome = "ok" <=> arg.cnt <= UpperBound
    /\ s = pre /\ Len(s) = Len(pre)

\* reserve(UpperBound + 1) was refused on an instance that holds characters.
C11_Witness ==
  /\ op = "reserve" /\ arg.cnt = UpperBound + 1 /\ outcome = LengthError
  /\ pre = <<"a", "b">> /\ s = pre

\* The insert overloads that take the position as an index.
IndexInsertOps ==
  {"insert_idx_count_ch", "insert_idx_cstr", "insert_idx_ptr_count",
   "insert_idx_str", "insert_idx_str_slice", "insert_idx_view",
   "insert_idx_view_slice"}

\* C12: an index-based insert called with index > length() raises
\* out_of_range, whatever length() + inserted length is, and leaves the
\* instance unchanged.
C12_InvalidIndexIsOutOfRange ==
  (op \in IndexInsertOps /\ arg.idx > Len(pre)) =>
    (outcome = OutOfRange /\ s = pre)

\* C13: assign(src, pos, count) with pos <= src.length(), from a bounded
\* string or a string-view-like source, succeeds iff the realized length
\* min(count, src.length() - pos) is at most UpperBound, and on success the
\* instance is exactly that slice.
C13_AssignClampBeforeCheck ==
  (op \in {"assign_str_slice", "assign_view_slice"}
   /\ arg.pos <= Len(arg.src)) =>
    /\ outcome = "ok" <=>
         Len(Realized(arg.src, arg.pos, arg.cnt)) <= UpperBound
    /\ outcome = "ok" => s = Realized(arg.src, arg.pos, arg.cnt)

\* assign(str, 1, npos) took the last UpperBound characters of a bounded
\* string: the raw count is above the bound, the realized slice is not.
C13_Witness ==
  /\ op = "assign_str_slice" /\ outcome = "ok"
  /\ arg.cnt = NPos /\ arg.pos = 1 /\ Len(arg.src) = UpperBound
  /\ Len(s) = UpperBound - 1 /\ s # pre

\* The insert overloads whose guard is `length() + count > UpperBound`.
CountInsertOps ==
  {"insert_idx_count_ch", "insert_idx_ptr_count", "insert_it_count_ch"}

\* The guard of the call threw: the comparison is the only event.
GuardThrew == outcome = LengthError /\ ev = <<"check">>

\* C14 as stated: whenever the unbounded sum length() + count exceeds
\* UpperBound, the guard itself rejects the call, a sum that wraps in
\* size_type included.
C14_GuardRejectsOverflow ==
  (op \in CountInsertOps /\ Len(pre) + arg.cnt > UpperBound) => GuardThrew

\* C14 as amended: whenever the unbounded sum length() + count exceeds
\* UpperBound the call is rejected and the instance is unchanged; the guard
\* is what rejects it exactly when the sum taken modulo the width of
\* size_type exceeds UpperBound, and else the base string raises
\* (out_of_range for an invalid index, length_error for its own max_size).
C14_OverflowRejected ==
  (op \in CountInsertOps /\ Len(pre) + arg.cnt > UpperBound) =>
    /\ outcome \in {LengthError, OutOfRange}
    /\ s = pre
    /\ GuardThrew <=> (Len(pre) + arg.cnt) % SizeMod > UpperBound
    /\ ~GuardThrew => ev = <<"check", "base_raise">>
    /\ outcome = OutOfRange => arg.idx > Len(pre)

\* insert(index, npos, ch) on a non-empty instance: the sum wraps below the
\* bound, the guard passes and the base string raises length_error.
C14_Witness ==
  /\ op = "insert_idx_count_ch" /\ arg.cnt = NPos /\ Len(pre) >= 1
  /\ arg.idx <= Len(pre)
  /\ (Len(pre) + arg.cnt) % SizeMod <= UpperBound
  /\ outcome = LengthError /\ ev = <<"check", "base_raise">> /\ s = pre

====
